---- MODULE Spec2Model ----
(***************************************************************************)
(* Model of prompt_toolkit's progress bar                                  *)
(* (src/prompt_toolkit/shortcuts/progress_bar/base.py) and of its default  *)
(* output (src/prompt_toolkit/output/defaults.py).                         *)
(*                                                                         *)
(* Two execution contexts are modelled: the producer side (the caller of   *)
(* ProgressBar.__enter__/__exit__/__call__/invalidate and of the counter   *)
(* generators) and the render thread started by __enter__, which runs      *)
(* Application.run() on its own asyncio loop inside _auto_refresh_context. *)
(* The Application class itself is not part of the sources at hand; the    *)
(* definitions prefixed App model what the specification says about the    *)
(* render context (a coalescing repaint request, a minimum redraw          *)
(* interval, termination on request).                                      *)
(*                                                                         *)
(* Time is counted in units of 0.05 s (the minimum redraw interval).        *)
(***************************************************************************)
EXTENDS Integers, Sequences, FiniteSets, TLC

\* ------------------------------------------------------------------ bounds
MaxCounters == 1     \* counters created by one controller
MaxLen == 1          \* items in a data source
MaxQueue == 2        \* callbacks waiting in the render loop's ready queue
MaxRepaints == 3     \* physical repaints counted
MaxPasses == 2       \* iteration passes over one counter
MaxStacked == 2      \* counters stacked in one frame
MaxElapsed == 2      \* time elapsed since a counter's start_time, in units
MaxContexts == 2     \* contexts (tasks) asking for the default output
MaxOutputs == 3      \* Output objects constructed by create_output
MaxGets == 2         \* get_default_output calls remembered per context

\* ------------------------------------------------------ program constants
min_redraw_interval == 1   \* Application(min_redraw_interval=.05): one unit
refresh_interval == 6      \* _auto_refresh_context(self.app, .3): six units

VARIABLES
    mainPc,                 \* where the owner of the controller is
    hasApp,                 \* the controller has its attribute app
    thread,                 \* self._thread / position of run() on it
    has_sigwinch,           \* self._has_sigwinch
    previous_winch_handler, \* self._previous_winch_handler
    winchHandler,           \* the process's SIGWINCH handler
    winchAtStart,           \* the handler in place when __enter__ was called
    stopWillExit,           \* outcome of __exit__'s test of app.is_running
    is_running,             \* Application.is_running
    future,                 \* Application.future: "none", "pending", "set"
    appFailed,              \* app.run() raised (caught in run())
    arDone,                 \* the variable done of _auto_refresh_context
    arTask,                 \* the coroutine run() of _auto_refresh_context
    sleepLeft,              \* time left of the task's sleep(refresh_interval)
    queued,                 \* app.invalidate callbacks queued on _app_loop
    invalidated,            \* Application._invalidated: a redraw is pending
    sinceRedraw,            \* time since the last redraw, saturating
    repaints,               \* physical repaints so far
    frame,                  \* lines of the last UIContent
    counters,               \* self.counters: sequence of counter ids
    ctr,                    \* the ProgressBarCounter objects, by id
    outcome,                \* last producer-side call: [op, exc]
    burst,                  \* observer of the invalidate() calls: see BurstAfterCall
    metric,                 \* the last reading of a counter's getters
    failing,                \* counters for which Formatter.format raises
    paint,                  \* create_content in progress, step by step
    default_output,         \* the TaskLocal _default_output, by context
    outputs,                \* Output objects constructed by create_output
    got                     \* what get_default_output returned, by context

lifeVars == <<mainPc, hasApp, stopWillExit>>
sigVars == <<has_sigwinch, previous_winch_handler, winchHandler, winchAtStart>>
appVars == <<thread, is_running, future, appFailed>>
arVars == <<arDone, arTask, sleepLeft>>
paintVars == <<invalidated, sinceRedraw, repaints, frame>>
ctrVars == <<counters, ctr>>
extVars == <<metric, failing, paint, default_output, outputs, got>>
vars == <<mainPc, hasApp, thread, has_sigwinch, previous_winch_handler,
          winchHandler, winchAtStart, stopWillExit, is_running, future,
          appFailed, arDone, arTask, sleepLeft, queued, invalidated,
          sinceRedraw, repaints, frame, counters, ctr, outcome, burst,
          metric, failing, paint, default_output, outputs, got>>

\* ---------------------------------------------------------------- values
None == <<>>                 \* Optional[int]: None, or <<n>> for the int n
Some(n) == <<n>>
Min(a, b) == IF a < b THEN a ELSE b
Max(a, b) == IF a > b THEN a ELSE b

Ids == 1..MaxCounters
Stacked == 1..MaxStacked
Contexts == 1..MaxContexts

\* No create_content is in progress.
PaintIdle == [pc |-> "idle", index |-> 0, items |-> <<>>, visited |-> <<>>,
              before |-> <<>>]
PriorHandlers == {"SIG_DFL", "user_handler"}
Result(op, exc) == [op |-> op, exc |-> exc]

\* A data source: None, a sized re-iterable (len() works, every pass starts
\* over) or an unsized one-shot iterator (len() raises TypeError).
DataSet ==
    {[kind |-> "none", len |-> 0]}
        \cup [kind : {"sized", "unsized"}, len : 0..MaxLen]


\* ------------------------------------------------------------------ Init
\* The state after ProgressBar.__init__ in a fresh process: no app, no
\* thread, no counters; SIGWINCH has its default handler and
\* _previous_winch_handler holds signal.getsignal(SIGWINCH).
Init ==
    /\ mainPc = "created"
    /\ hasApp = FALSE
    /\ thread = "none"
    /\ has_sigwinch = FALSE
    /\ winchHandler = "SIG_DFL"
    /\ previous_winch_handler = winchHandler
    /\ winchAtStart = winchHandler
    /\ stopWillExit = FALSE
    /\ is_running = FALSE
    /\ future = "none"
    /\ appFailed = FALSE
    /\ arDone = FALSE
    /\ arTask = "none"
    /\ sleepLeft = 0
    /\ queued = 0
    /\ invalidated = FALSE
    /\ sinceRedraw = min_redraw_interval
    /\ repaints = 0
    /\ frame = <<>>
    /\ counters = <<>>
    /\ ctr = <<>>
    /\ outcome = Result("init", "none")
    /\ burst = "idle"
    /\ metric = None
    /\ failing = {}
    /\ paint = PaintIdle
    /\ default_output = [x \in Contexts |-> None]
    /\ outputs = 0
    /\ got = [x \in Contexts |-> <<>>]

\* ------------------------------------------------------- signal handling
\* The program installs its own SIGWINCH handler between the construction
\* of the controller and __enter__.
SignalSignal(h) ==
    /\ mainPc = "created"
    /\ h # winchHandler
    /\ winchHandler' = h
    /\ UNCHANGED <<has_sigwinch, previous_winch_handler, winchAtStart>>
    /\ UNCHANGED <<lifeVars, appVars, arVars, paintVars, ctrVars, queued, outcome>>
    /\ UNCHANGED <<burst, extVars>>

\* loop.add_signal_handler(SIGWINCH, self.invalidate), preceded by the
\* read of the handler it replaces.
AttachWinch ==
    /\ previous_winch_handler' = winchHandler
    /\ winchHandler' = "hook"

\* The removal of the hook without the signal.signal that follows it.
RestoreWinch_removeOnly ==
    winchHandler' = "SIG_DFL"

\* loop.remove_signal_handler(SIGWINCH) leaves SIG_DFL; signal.signal then
\* puts _previous_winch_handler back.
RestoreWinch ==
    winchHandler' = previous_winch_handler

\* --------------------------------------------------------- the controller
\* __enter__ without self._thread.start().
Enter_threadNotStarted(in_main_thread) ==
    /\ mainPc = "created"
    /\ mainPc' = "started"
    /\ hasApp' = TRUE
    /\ has_sigwinch' = in_main_thread
    /\ winchAtStart' = winchHandler
    /\ IF in_main_thread
         THEN AttachWinch
         ELSE UNCHANGED <<previous_winch_handler, winchHandler>>
    /\ outcome' = Result("enter", "none")
    /\ UNCHANGED <<stopWillExit, appVars>>
    /\ UNCHANGED <<arVars, paintVars, ctrVars, queued>>
    /\ UNCHANGED <<burst, extVars>>

\* ProgressBar.__enter__: create the Application, start the thread, attach
\* the WINCH handler when in the main thread.
Enter(in_main_thread) ==
    /\ mainPc = "created"
    /\ mainPc' = "started"
    /\ hasApp' = TRUE
    /\ thread' = "spawned"
    /\ has_sigwinch' = in_main_thread
    /\ winchAtStart' = winchHandler
    /\ IF in_main_thread
         THEN AttachWinch
         ELSE UNCHANGED <<previous_winch_handler, winchHandler>>
    /\ outcome' = Result("enter", "none")
    /\ UNCHANGED <<stopWillExit, is_running, future, appFailed>>
    /\ UNCHANGED <<arVars, paintVars, ctrVars, queued>>
    /\ UNCHANGED <<burst, extVars>>

\* ProgressBar.invalidate: self._app_loop.call_soon_threadsafe(self.app.invalidate).
\* Reading self.app raises AttributeError while __enter__ has not set it;
\* otherwise one more callback waits in the loop's ready queue.
invalidate_raises == ~hasApp

\* The observer of the calls of invalidate(): "idle" before the first call,
\* "open" while every call so far was made with the application running
\* and less than the minimum redraw interval after the first one, "aged"
\* once that interval has passed, "void" when some call was made outside
\* it or while the application was not running.
BurstAfterCall ==
    IF ~is_running \/ burst \in {"aged", "void"} THEN "void" ELSE "open"

\* An invalidate that renders on the caller's thread instead of handing
\* the request to the render loop.
invalidate_paintsItself ==
    /\ repaints < MaxRepaints
    /\ repaints' = repaints + 1
    /\ frame' = [k \in 1..Len(counters) |->
                    [current |-> ctr[counters[k]].current,
                     total |-> ctr[counters[k]].total,
                     done |-> ctr[counters[k]].done]]
    /\ burst' = BurstAfterCall
    /\ UNCHANGED <<queued, invalidated, sinceRedraw>>

invalidate ==
    /\ queued < MaxQueue
    /\ queued' = queued + 1
    /\ burst' = BurstAfterCall
    /\ UNCHANGED paintVars

\* invalidate() called directly by some producer thread.
Invalidate ==
    /\ IF invalidate_raises
         THEN /\ outcome' = Result("invalidate", "AttributeError")
              /\ UNCHANGED <<queued, burst, paintVars>>
         ELSE /\ invalidate
              /\ outcome' = Result("invalidate", "none")
    /\ UNCHANGED <<lifeVars, sigVars, appVars, arVars, ctrVars>>
    /\ UNCHANGED extVars

\* A terminal resize: the SIGWINCH hook of __enter__ calls self.invalidate.
Resize ==
    /\ winchHandler = "hook"
    /\ invalidate
    /\ UNCHANGED <<lifeVars, sigVars, appVars, arVars, ctrVars, outcome>>
    /\ UNCHANGED extVars

\* Application.exit(): resolve the future the application's run waits for.
App_exit ==
    future' = "set"

\* __exit__ calling app.exit() without the test of is_running.
StopCheck_noTest ==
    /\ mainPc = "started"
    /\ mainPc' = "exit_checked"
    /\ stopWillExit' = TRUE
    /\ UNCHANGED <<hasApp, sigVars, appVars, arVars, paintVars, ctrVars, queued, outcome>>
    /\ UNCHANGED <<burst, extVars>>

\* ProgressBar.__exit__, first statement: the test of self.app.is_running.
StopCheck ==
    /\ mainPc = "started"
    /\ mainPc' = "exit_checked"
    /\ stopWillExit' = is_running
    /\ UNCHANGED <<hasApp, sigVars, appVars, arVars, paintVars, ctrVars, queued, outcome>>
    /\ UNCHANGED <<burst, extVars>>

\* ProgressBar.__exit__, app.exit() when the test succeeded, then the
\* removal of the WINCH handler.
StopRequest ==
    /\ mainPc = "exit_checked"
    /\ mainPc' = "joining"
    /\ IF stopWillExit THEN App_exit ELSE UNCHANGED future
    /\ IF has_sigwinch THEN RestoreWinch ELSE UNCHANGED winchHandler
    /\ UNCHANGED <<hasApp, stopWillExit, has_sigwinch, previous_winch_handler, winchAtStart>>
    /\ UNCHANGED <<thread, is_running, appFailed>>
    /\ UNCHANGED <<arVars, paintVars, ctrVars, queued, outcome>>
    /\ UNCHANGED <<burst, extVars>>

\* A join that does not wait for the thread.
Thread_join_nowait == TRUE

\* threading.Thread.join(): returns once the thread has terminated.
Thread_join == thread = "terminated"

\* ProgressBar.__exit__, self._thread.join() and the return.
StopJoin ==
    /\ mainPc = "joining"
    /\ Thread_join
    /\ mainPc' = "stopped"
    /\ outcome' = Result("exit", "none")
    /\ UNCHANGED <<hasApp, stopWillExit, sigVars, appVars, arVars, paintVars, ctrVars, queued>>
    /\ UNCHANGED <<burst, extVars>>

\* ------------------------------------------------------ the render thread
\* run(), up to the call of app.run(): set_event_loop, and on entering
\* _auto_refresh_context done = False and ensure_future(run()).
ThreadRun ==
    /\ thread = "spawned"
    /\ thread' = "in_context"
    /\ arDone' = FALSE
    /\ arTask' = "scheduled"
    /\ UNCHANGED <<lifeVars, sigVars, is_running, future, appFailed, sleepLeft>>
    /\ UNCHANGED <<paintVars, ctrVars, queued, outcome>>
    /\ UNCHANGED <<burst, extVars>>

\* Application.run() starts: the application is running and waits for its
\* future; the loop of the thread runs from here on.
AppRun ==
    /\ thread = "in_context"
    /\ thread' = "app_running"
    /\ is_running' = TRUE
    /\ future' = "pending"
    /\ UNCHANGED <<lifeVars, sigVars, appFailed, arVars, paintVars, ctrVars, queued, outcome>>
    /\ UNCHANGED <<burst, extVars>>

\* Application.run() returns after exit() resolved its future.
AppReturn ==
    /\ thread = "app_running"
    /\ future = "set"
    /\ thread' = "app_done"
    /\ is_running' = FALSE
    /\ UNCHANGED <<lifeVars, sigVars, future, appFailed, arVars, paintVars, ctrVars, queued, outcome>>
    /\ UNCHANGED <<burst, extVars>>

\* Application.run() raises; run() catches BaseException and prints it.
AppFail ==
    /\ thread \in {"in_context", "app_running"}
    /\ thread' = "app_done"
    /\ is_running' = FALSE
    /\ appFailed' = TRUE
    /\ UNCHANGED <<lifeVars, sigVars, future, arVars, paintVars, ctrVars, queued, outcome>>
    /\ UNCHANGED <<burst, extVars>>

\* The finally of _auto_refresh_context (done = True); run() returns and the
\* thread terminates.
ThreadEnd ==
    /\ thread = "app_done"
    /\ thread' = "terminated"
    /\ arDone' = TRUE
    /\ UNCHANGED <<lifeVars, sigVars, is_running, future, appFailed, arTask, sleepLeft>>
    /\ UNCHANGED <<paintVars, ctrVars, queued, outcome>>
    /\ UNCHANGED <<burst, extVars>>

\* Application.invalidate(), on the render loop: nothing when the
\* application is not running or a redraw is pending already.
App_invalidate ==
    invalidated' = (invalidated \/ is_running)

\* The loop runs one queued call of app.invalidate.
LoopCallback ==
    /\ thread = "app_running"
    /\ queued > 0
    /\ queued' = queued - 1
    /\ App_invalidate
    /\ UNCHANGED <<lifeVars, sigVars, appVars, arVars, sinceRedraw, repaints, frame>>
    /\ UNCHANGED <<ctrVars, outcome>>
    /\ UNCHANGED <<burst, extVars>>

\* Formatter.format(progress_bar, pr, width): what the line of a counter
\* shows is its state when format is called.
FormatLine(c) ==
    [current |-> c.current, total |-> c.total, done |-> c.done]

\* The line shown for a counter whose formatter raised.
ErrorText == [text |-> "ERROR"]

\* self.formatter.format(self.progress_bar, pr, width): the formatter is
\* foreign code, which raises for the counters in failing.
Formatter_format(i) ==
    IF i \in failing THEN [exc |-> "Exception", value |-> ErrorText]
    ELSE [exc |-> "none", value |-> FormatLine(ctr[i])]

\* The body of the loop of create_content: try format, except
\* BaseException the text 'ERROR'.
LineOf(i) ==
    IF Formatter_format(i).exc # "none" THEN ErrorText
    ELSE Formatter_format(i).value

\* _ProgressControl.create_content, run without a step of another thread
\* in between: one line per registered counter, in registry order.
create_content ==
    [k \in 1..Len(counters) |-> LineOf(counters[k])]

\* The formatter starts or stops raising for counter i (say, its label
\* was replaced).
FormatterFault(i) ==
    /\ i \in 1..Len(ctr)
    /\ failing' = IF i \in failing THEN failing \ {i} ELSE failing \cup {i}
    /\ UNCHANGED <<lifeVars, sigVars, appVars, arVars, paintVars, ctrVars>>
    /\ UNCHANGED <<queued, outcome, burst>>
    /\ UNCHANGED <<metric, paint, default_output, outputs, got>>

\* A redraw runs when one is pending, the minimum interval has passed since
\* the last one, and the loop has run the callbacks queued before it (the
\* loop's ready queue is first in, first out).
App_redraw_due ==
    /\ invalidated
    /\ sinceRedraw >= min_redraw_interval
    /\ queued = 0

\* The physical repaint of the application.
Redraw ==
    /\ thread = "app_running"
    /\ App_redraw_due
    /\ repaints < MaxRepaints
    /\ invalidated' = FALSE
    /\ sinceRedraw' = 0
    /\ repaints' = repaints + 1
    /\ frame' = create_content
    /\ UNCHANGED <<lifeVars, sigVars, appVars, arVars, ctrVars, queued, outcome>>
    /\ UNCHANGED <<burst, extVars>>

\* The same repaint step by step, as it runs beside the producer threads.
\* The application starts a repaint and calls create_content: items = [],
\* and the for statement takes an iterator over self.progress_bar.counters.
RenderBegin ==
    /\ thread = "app_running"
    /\ App_redraw_due
    /\ repaints < MaxRepaints
    /\ paint.pc = "idle"
    /\ invalidated' = FALSE
    /\ paint' = [pc |-> "loop", index |-> 0, items |-> <<>>,
                 visited |-> <<>>, before |-> counters]
    /\ UNCHANGED <<lifeVars, sigVars, appVars, arVars, ctrVars>>
    /\ UNCHANGED <<sinceRedraw, repaints, frame, queued, outcome, burst>>
    /\ UNCHANGED <<metric, failing, default_output, outputs, got>>

\* One turn of the loop whose except clause lets the exception go: it
\* leaves create_content and app.run(), and run() prints it.
CreateContentVisit_noCatch ==
    /\ paint.pc = "loop"
    /\ paint.index < Len(counters)
    /\ LET i == counters[paint.index + 1] IN
         IF Formatter_format(i).exc # "none"
           THEN /\ paint' = [paint EXCEPT !.pc = "idle"]
                /\ thread' = "app_done"
                /\ is_running' = FALSE
                /\ appFailed' = TRUE
                /\ UNCHANGED future
           ELSE /\ paint' = [paint EXCEPT
                                !.index = paint.index + 1,
                                !.items = Append(paint.items, LineOf(i)),
                                !.visited = Append(paint.visited, i)]
                /\ UNCHANGED appVars
    /\ UNCHANGED <<lifeVars, sigVars, arVars, paintVars, ctrVars>>
    /\ UNCHANGED <<queued, outcome, burst>>
    /\ UNCHANGED <<metric, failing, default_output, outputs, got>>

\* One turn of the loop of create_content: the list iterator hands out the
\* element at its index, if the list is that long now, and the line of that
\* counter is appended to items.
CreateContentVisit ==
    /\ paint.pc = "loop"
    /\ paint.index < Len(counters)
    /\ LET i == counters[paint.index + 1] IN
         paint' = [paint EXCEPT !.index = paint.index + 1,
                                !.items = Append(paint.items, LineOf(i)),
                                !.visited = Append(paint.visited, i)]
    /\ UNCHANGED <<lifeVars, sigVars, appVars, arVars, paintVars, ctrVars>>
    /\ UNCHANGED <<queued, outcome, burst>>
    /\ UNCHANGED <<metric, failing, default_output, outputs, got>>

\* The list iterator is exhausted: create_content returns the UIContent of
\* items and the application writes it.
RenderEnd ==
    /\ paint.pc = "loop"
    /\ paint.index >= Len(counters)
    /\ paint' = [paint EXCEPT !.pc = "idle"]
    /\ frame' = paint.items
    /\ repaints' = repaints + 1
    /\ sinceRedraw' = 0
    /\ UNCHANGED <<lifeVars, sigVars, appVars, arVars, ctrVars>>
    /\ UNCHANGED <<invalidated, queued, outcome, burst>>
    /\ UNCHANGED <<metric, failing, default_output, outputs, got>>

\* The task of _auto_refresh_context starts: while not done: sleep(...).
AutoRefreshStart ==
    /\ thread = "app_running"
    /\ arTask = "scheduled"
    /\ arTask' = IF arDone THEN "finished" ELSE "sleeping"
    /\ sleepLeft' = IF arDone THEN 0 ELSE refresh_interval
    /\ UNCHANGED <<lifeVars, sigVars, appVars, arDone, paintVars, ctrVars, queued, outcome>>
    /\ UNCHANGED <<burst, extVars>>

\* The task written with if in place of while: one sleep, one request.
AutoRefreshWake_once ==
    /\ thread = "app_running"
    /\ arTask = "sleeping"
    /\ sleepLeft = 0
    /\ App_invalidate
    /\ arTask' = "finished"
    /\ sleepLeft' = 0
    /\ UNCHANGED <<lifeVars, sigVars, appVars, arDone, sinceRedraw, repaints, frame>>
    /\ UNCHANGED <<ctrVars, queued, outcome>>
    /\ UNCHANGED <<burst, extVars>>

\* The sleep is over: app.invalidate(), then the test of done again.
AutoRefreshWake ==
    /\ thread = "app_running"
    /\ arTask = "sleeping"
    /\ sleepLeft = 0
    /\ App_invalidate
    /\ arTask' = IF arDone THEN "finished" ELSE "sleeping"
    /\ sleepLeft' = IF arDone THEN 0 ELSE refresh_interval
    /\ UNCHANGED <<lifeVars, sigVars, appVars, arDone, sinceRedraw, repaints, frame>>
    /\ UNCHANGED <<ctrVars, queued, outcome>>
    /\ UNCHANGED <<burst, extVars>>

\* One unit of time (one minimum redraw interval) passes.
Tick ==
    /\ sinceRedraw' = Min(sinceRedraw + 1, min_redraw_interval)
    /\ sleepLeft' = Max(sleepLeft - 1, 0)
    /\ burst' = IF burst = "open" THEN "aged" ELSE burst
    /\ <<sinceRedraw, sleepLeft, burst>>' # <<sinceRedraw, sleepLeft, burst>>
    /\ UNCHANGED extVars
    /\ UNCHANGED <<lifeVars, sigVars, appVars, arDone, arTask, invalidated, repaints, frame>>
    /\ UNCHANGED <<ctrVars, queued, outcome>>

\* ------------------------------------------------------------- counters
\* ProgressBarCounter.__init__: total is the explicit total, else len(data)
\* when data has a length, else None (TypeError of len).
InitialTotal(data, total) ==
    IF total # None THEN total
    ELSE IF data.kind = "sized" THEN Some(data.len)
    ELSE None

ProgressBarCounter(data, remove_when_done, total) ==
    [data |-> data,
     remove_when_done |-> remove_when_done,
     total |-> InitialTotal(data, total),
     derived |-> (total = None /\ data.kind = "sized"),  \* total is len(data)
     current |-> 0,
     done |-> FALSE,
     pos |-> 0,           \* items the data source has handed out (this pass)
     gen |-> "idle",      \* the generator of __iter__: idle, advanced, yielded
     passes |-> 0,        \* passes begun
     cleanups |-> 0,      \* executions of the finally block
     base |-> 0,          \* in a pass: current when the pass began
     items |-> 0,         \* in a pass: items pulled from the source
     calls |-> 0]         \* in a pass: invalidate() calls returned

\* ------------------------------------------------------ metric getters
\* A float or timedelta is kept as the exact fraction num/den; what a
\* getter does is its value, or the exception it raises.
Rat(n, d) == [num |-> n, den |-> d]
Returned(v) == [exc |-> "none", value |-> v]
Raised(e) == [exc |-> e, value |-> None]

\* The percentage without the factor 100.
percentage_fraction(c) ==
    IF c.total = None THEN Returned(Rat(0, 1))
    ELSE Returned(Rat(c.current, Max(c.total[1], 1)))

\* ProgressBarCounter.percentage: 0 when total is None, else
\* current * 100 / max(total, 1).
percentage(c) ==
    IF c.total = None THEN Returned(Rat(0, 1))
    ELSE Returned(Rat(c.current * 100, Max(c.total[1], 1)))

\* The division elapsed * (100 - p) / p for the fraction p; dividing by
\* zero raises ZeroDivisionError.
TimeLeftOf(elapsed, p) ==
    IF p.num = 0 THEN Raised("ZeroDivisionError")
    ELSE Returned(Some(Rat(elapsed * (100 * p.den - p.num), p.num)))

\* time_left testing total only, not the percentage.
time_left_noZeroTest(c, elapsed) ==
    IF c.total = None THEN Returned(None)
    ELSE TimeLeftOf(elapsed, percentage(c).value)

\* ProgressBarCounter.time_left: None when total is None or the percentage
\* is zero, else time_elapsed * (100 - percentage) / percentage.
time_left(c, elapsed) ==
    IF c.total = None \/ percentage(c).value.num = 0 THEN Returned(None)
    ELSE TimeLeftOf(elapsed, percentage(c).value)

\* A formatter, or the caller, reads the getters of counter i when elapsed
\* units of time have passed since its start_time.
ReadMetrics(i, elapsed) ==
    /\ i \in 1..Len(ctr)
    /\ metric' = Some([id |-> i,
                       total |-> ctr[i].total,
                       current |-> ctr[i].current,
                       elapsed |-> elapsed,
                       percentage |-> percentage(ctr[i]),
                       time_left |-> time_left(ctr[i], elapsed)])
    /\ UNCHANGED <<lifeVars, sigVars, appVars, arVars, paintVars, ctrVars>>
    /\ UNCHANGED <<queued, outcome, burst>>
    /\ UNCHANGED <<failing, paint, default_output, outputs, got>>

\* The explicit totals tried: none given, or the largest length.
TotalSet == {None, Some(MaxLen)}

\* __call__ putting the new counter first in the list.
NewCounter_prepend(data, remove_when_done, total) ==
    /\ Len(ctr) < MaxStacked
    /\ ctr' = Append(ctr, ProgressBarCounter(data, remove_when_done, total))
    /\ counters' = <<Len(ctr) + 1>> \o counters
    /\ outcome' = Result("new_counter", "none")
    /\ UNCHANGED <<lifeVars, sigVars, appVars, arVars, paintVars, queued>>
    /\ UNCHANGED <<burst, extVars>>

\* ProgressBar.__call__: construct the counter and append it to counters.
NewCounter(data, remove_when_done, total) ==
    /\ Len(ctr) < MaxStacked
    /\ ctr' = Append(ctr, ProgressBarCounter(data, remove_when_done, total))
    /\ counters' = Append(counters, Len(ctr) + 1)
    /\ outcome' = Result("new_counter", "none")
    /\ UNCHANGED <<lifeVars, sigVars, appVars, arVars, paintVars, queued>>
    /\ UNCHANGED <<burst, extVars>>

InRegistry(i) == \E k \in 1..Len(counters) : counters[k] = i

\* list.remove(x): drop the first element equal to x.
RECURSIVE list_remove(_, _)
list_remove(s, x) ==
    IF s = <<>> THEN <<>>
    ELSE IF Head(s) = x THEN Tail(s)
    ELSE <<Head(s)>> \o list_remove(Tail(s), x)

\* The cleanup written after the loop instead of in a finally block: it runs
\* on exhaustion only; an exception or the closing of the generator ends
\* the pass without it.
Finally_afterLoop(i, c, op, exc) ==
    IF op = "next" /\ exc = "none"
      THEN /\ ctr' = [ctr EXCEPT ![i] =
                        [c EXCEPT !.done = TRUE, !.gen = "idle",
                                  !.cleanups = c.cleanups + 1,
                                  !.base = 0, !.items = 0, !.calls = 0]]
           /\ counters' = IF c.remove_when_done
                             THEN list_remove(counters, i) ELSE counters
           /\ outcome' = Result(op, exc)
      ELSE /\ ctr' = [ctr EXCEPT ![i] =
                        [c EXCEPT !.gen = "idle",
                                  !.base = 0, !.items = 0, !.calls = 0]]
           /\ UNCHANGED counters
           /\ outcome' = Result(op, exc)

\* done = True written inside the test of remove_when_done.
Finally_doneOnlyWhenRemoved(i, c, op, exc) ==
    /\ ctr' = [ctr EXCEPT ![i] =
                  [c EXCEPT !.done = c.remove_when_done, !.gen = "idle",
                            !.cleanups = c.cleanups + 1,
                            !.base = 0, !.items = 0, !.calls = 0]]
    /\ IF c.remove_when_done
         THEN IF InRegistry(i)
                THEN /\ counters' = list_remove(counters, i)
                     /\ outcome' = Result(op, exc)
                ELSE /\ UNCHANGED counters
                     /\ outcome' = Result(op, "ValueError")
         ELSE /\ UNCHANGED counters
              /\ outcome' = Result(op, exc)

\* The finally block of __iter__, entered with the exception exc in flight
\* ("none": StopIteration or GeneratorExit, the regular ends). It sets done
\* and, when remove_when_done, removes the counter from the registry;
\* list.remove raises ValueError when the counter is not in the list.
Finally(i, c, op, exc) ==
    /\ ctr' = [ctr EXCEPT ![i] =
                  [c EXCEPT !.done = TRUE, !.gen = "idle",
                            !.cleanups = c.cleanups + 1,
                            !.base = 0, !.items = 0, !.calls = 0]]
    /\ IF c.remove_when_done
         THEN IF InRegistry(i)
                THEN /\ counters' = list_remove(counters, i)
                     /\ outcome' = Result(op, exc)
                ELSE /\ UNCHANGED counters
                     /\ outcome' = Result(op, "ValueError")
         ELSE /\ UNCHANGED counters
              /\ outcome' = Result(op, exc)

\* The counter as the generator sees it when next() resumes it: a new pass
\* over a sized source starts from its first item.
Resumed(c) ==
    IF c.gen = "idle"
      THEN [c EXCEPT !.passes = c.passes + 1,
                     !.pos = IF c.data.kind = "sized" THEN 0 ELSE c.pos,
                     !.base = c.current,
                     !.items = 0,
                     !.calls = 0]
      ELSE c

\* A loop body that yields the item first and counts it when the
\* generator is resumed.
IterNext_yieldFirst(i) ==
    /\ i \in 1..Len(ctr)
    /\ ctr[i].gen \in {"idle", "yielded"}
    /\ ctr[i].gen = "idle" => ctr[i].passes < MaxPasses
    /\ LET r == Resumed(ctr[i])
           c == IF ctr[i].gen = "yielded"
                  THEN [r EXCEPT !.current = r.current + 1] ELSE r
       IN
         \/ /\ c.data.kind = "none" \/ c.pos = c.data.len
            /\ Finally(i, c, "next", "none")
         \/ /\ c.data.kind # "none"
            /\ c.pos < c.data.len
            /\ ctr' = [ctr EXCEPT ![i] =
                          [c EXCEPT !.pos = c.pos + 1,
                                    !.items = c.items + 1,
                                    !.gen = "yielded"]]
            /\ UNCHANGED <<counters, outcome>>
    /\ UNCHANGED <<lifeVars, sigVars, appVars, arVars, paintVars, queued>>
    /\ UNCHANGED <<burst, extVars>>

\* next() on the generator of __iter__: the data source is None or
\* exhausted (the finally block runs, StopIteration), or it raises (the
\* finally block runs, the exception propagates), or it hands out an item
\* and current is incremented.
IterNext(i) ==
    /\ i \in 1..Len(ctr)
    /\ ctr[i].gen \in {"idle", "yielded"}
    /\ ctr[i].gen = "idle" => ctr[i].passes < MaxPasses
    /\ LET c == Resumed(ctr[i]) IN
         \/ /\ c.data.kind = "none" \/ c.pos = c.data.len
            /\ Finally(i, c, "next", "none")
            /\ UNCHANGED queued
         \/ /\ c.data.kind # "none"
            /\ c.pos < c.data.len
            /\ Finally(i, [c EXCEPT !.pos = c.data.len], "next", "DataError")
            /\ UNCHANGED queued
         \/ /\ c.data.kind # "none"
            /\ c.pos < c.data.len
            /\ ctr' = [ctr EXCEPT ![i] =
                          [c EXCEPT !.pos = c.pos + 1,
                                    !.items = c.items + 1,
                                    !.current = c.current + 1,
                                    !.gen = "advanced"]]
            /\ UNCHANGED <<counters, queued, outcome>>
    /\ UNCHANGED <<lifeVars, sigVars, appVars, arVars, paintVars>>
    /\ UNCHANGED <<burst, extVars>>

\* self.progress_bar.invalidate() in the loop of __iter__, then the yield;
\* when invalidate raises, the finally block runs.
IterInvalidate(i) ==
    /\ i \in 1..Len(ctr)
    /\ ctr[i].gen = "advanced"
    /\ IF invalidate_raises
         THEN /\ Finally(i, ctr[i], "next", "AttributeError")
              /\ UNCHANGED <<queued, burst, paintVars>>
         ELSE /\ invalidate
              /\ ctr' = [ctr EXCEPT ![i] =
                            [ctr[i] EXCEPT !.gen = "yielded",
                                           !.calls = ctr[i].calls + 1]]
              /\ outcome' = Result("next", "none")
              /\ UNCHANGED counters
    /\ UNCHANGED <<lifeVars, sigVars, appVars, arVars>>
    /\ UNCHANGED extVars

\* The caller abandons the iteration (break): the generator is closed,
\* GeneratorExit is raised at the yield and the finally block runs.
IterClose(i) ==
    /\ i \in 1..Len(ctr)
    /\ ctr[i].gen = "yielded"
    /\ Finally(i, ctr[i], "close", "none")
    /\ UNCHANGED <<lifeVars, sigVars, appVars, arVars, paintVars, queued>>
    /\ UNCHANGED <<burst, extVars>>

LifeNext ==
    \/ \E h \in PriorHandlers : SignalSignal(h)
    \/ \E m \in BOOLEAN : Enter(m)
    \/ Invalidate
    \/ Resize
    \/ StopCheck
    \/ StopRequest
    \/ StopJoin
    \/ ThreadRun
    \/ AppRun
    \/ AppReturn
    \/ AppFail
    \/ ThreadEnd
    \/ LoopCallback
    \/ Redraw
    \/ AutoRefreshStart
    \/ AutoRefreshWake
    \/ Tick

\* The producer side: the controller is started, counters are created and
\* iterated, the render loop takes the queued callbacks.
ProducerNext ==
    \/ Enter(TRUE)
    \/ ThreadRun
    \/ AppRun
    \/ LoopCallback
    \/ \E d \in DataSet, r \in BOOLEAN :
           /\ Len(ctr) < MaxCounters
           /\ NewCounter(d, r, None)
    \/ \E i \in Ids : IterNext(i)
    \/ \E i \in Ids : IterInvalidate(i)
    \/ \E i \in Ids : IterClose(i)

\* The render loop painting the first counter of a controller: the
\* producer side and the application's redraws, with time.
PaintNext ==
    \/ Enter(FALSE)
    \/ Invalidate
    \/ ThreadRun
    \/ AppRun
    \/ LoopCallback
    \/ Redraw
    \/ Tick
    \/ \E n \in 1..MaxLen, r \in BOOLEAN :
           /\ ctr = <<>>
           /\ NewCounter([kind |-> "sized", len |-> n], r, None)
    \/ \E i \in Ids : IterNext(i)
    \/ \E i \in Ids : IterInvalidate(i)
    \/ \E i \in Ids : IterClose(i)

\* ------------------------------------------------- the default output
\* (src/prompt_toolkit/output/defaults.py)
\* What create_output looks at: is_windows(), is_win_vt100_enabled(),
\* is_conemu_ansi().
Envs == [is_windows : BOOLEAN, is_win_vt100_enabled : BOOLEAN,
         is_conemu_ansi : BOOLEAN]

\* The Output objects a program makes itself and passes to
\* set_default_output.
UserOutputs == {[by |-> "user", kind |-> "Output", n |-> u] : u \in Contexts}

\* create_output(): the class chosen for the platform; n tells the objects
\* constructed apart.
create_output(env, n) ==
    [by |-> "create_output",
     kind |-> IF env.is_windows
                THEN IF env.is_win_vt100_enabled THEN "Windows10_Output"
                     ELSE IF env.is_conemu_ansi THEN "ConEmuOutput"
                     ELSE "Win32Output"
                ELSE "Vt100_Output",
     n |-> n]

\* get_default_output() in context x: the value of the task local, or, when
\* it is not set (TaskLocalNotSetError), a newly created output, which is
\* returned and not stored.
get_default_output(x, env) ==
    /\ Len(got[x]) < MaxGets
    /\ IF default_output[x] = None
         THEN /\ outputs < MaxOutputs
              /\ outputs' = outputs + 1
              /\ got' = [got EXCEPT
                            ![x] = Append(@, create_output(env, outputs + 1))]
         ELSE /\ got' = [got EXCEPT ![x] = Append(@, default_output[x][1])]
              /\ UNCHANGED outputs
    /\ UNCHANGED default_output
    /\ UNCHANGED <<lifeVars, sigVars, appVars, arVars, paintVars, ctrVars>>
    /\ UNCHANGED <<queued, outcome, burst, metric, failing, paint>>

\* set_default_output(output) in context x; the calls of
\* get_default_output remembered are those since the last set.
set_default_output(x, output) ==
    /\ default_output' = [default_output EXCEPT ![x] = Some(output)]
    /\ got' = [got EXCEPT ![x] = <<>>]
    /\ UNCHANGED outputs
    /\ UNCHANGED <<lifeVars, sigVars, appVars, arVars, paintVars, ctrVars>>
    /\ UNCHANGED <<queued, outcome, burst, metric, failing, paint>>

OutputNext ==
    \/ \E x \in Contexts, env \in Envs : get_default_output(x, env)
    \/ \E x \in Contexts, o \in UserOutputs : set_default_output(x, o)

\* Frames are built while the formatter fails for some counters: counters
\* are stacked, and the first one is iterated, once.
FormatNext ==
    \/ Enter(FALSE)
    \/ ThreadRun
    \/ AppRun
    \/ LoopCallback
    \/ Tick
    \/ \E r \in BOOLEAN :
           NewCounter([kind |-> "sized", len |-> MaxLen], r, None)
    \/ /\ ctr # <<>>
       /\ ctr[1].gen = "idle" => ctr[1].passes = 0
       /\ IterNext(1)
    \/ IterInvalidate(1)
    \/ \E i \in Stacked : FormatterFault(i)
    \/ RenderBegin
    \/ CreateContentVisit
    \/ RenderEnd

\* The registry: counters are stacked, iterated and removed; the first
\* counter is iterated again and again, the others once.
RegistryNext ==
    \/ Enter(FALSE)
    \/ ThreadRun
    \/ AppRun
    \/ LoopCallback
    \/ \E r \in BOOLEAN :
           NewCounter([kind |-> "sized", len |-> MaxLen], r, None)
    \/ \E i \in Stacked :
           /\ i \in 1..Len(ctr)
           /\ ctr[i].gen = "idle" => (ctr[i].passes = 0 \/ i = 1)
           /\ IterNext(i)
    \/ \E i \in Stacked : IterInvalidate(i)
    \/ \E i \in Stacked : IterClose(i)

\* The first counter of a controller is iterated while its getters are
\* read (the getters of a counter read nothing of another counter).
MetricNext ==
    \/ Enter(FALSE)
    \/ ThreadRun
    \/ AppRun
    \/ LoopCallback
    \/ \E d \in DataSet, t \in TotalSet :
           /\ ctr = <<>>
           /\ NewCounter(d, FALSE, t)
    \/ \E i \in Ids : IterNext(i)
    \/ \E i \in Ids : IterInvalidate(i)
    \/ \E i \in Ids : IterClose(i)
    \/ \E i \in Ids, e \in 0..MaxElapsed : ReadMetrics(i, e)

\* Several counters are stacked, iterated (once each) and removed while the
\* render thread builds a frame line by line.
FrameNext ==
    \/ Enter(FALSE)
    \/ ThreadRun
    \/ AppRun
    \/ LoopCallback
    \/ \E r \in BOOLEAN :
           NewCounter([kind |-> "sized", len |-> MaxLen], r, None)
    \/ \E i \in Stacked :
           /\ i \in 1..Len(ctr)
           /\ ctr[i].gen = "idle" => ctr[i].passes = 0
           /\ IterNext(i)
    \/ \E i \in Stacked : IterInvalidate(i)
    \/ \E i \in Stacked : IterClose(i)
    \/ \E i \in Stacked : FormatterFault(i)
    \/ RenderBegin
    \/ CreateContentVisit
    \/ RenderEnd

\* The controller and its render thread (no counters).
Spec == Init /\ [][LifeNext]_vars

\* The producer side.
SpecIter == Init /\ [][ProducerNext]_vars

\* The painting of the counters.
SpecPaint == Init /\ [][PaintNext]_vars

\* The frames of several counters.
SpecFrame == Init /\ [][FrameNext]_vars

\* The default output.
SpecOutput == Init /\ [][OutputNext]_vars

\* The frames under formatter failures.
SpecFormat == Init /\ [][FormatNext]_vars

\* The registry of several counters.
SpecRegistry == Init /\ [][RegistryNext]_vars

\* The getters of the counters.
SpecMetric == Init /\ [][MetricNext]_vars

\* The scheduling the code relies on: the render thread, once started, keeps
\* running its loop; a call of __exit__ that has begun proceeds; time
\* passes. A failure of the application, and what the producer calls, are
\* not forced.
Fairness ==
    /\ WF_vars(ThreadRun)
    /\ WF_vars(AppRun)
    /\ WF_vars(AppReturn)
    /\ WF_vars(ThreadEnd)
    /\ WF_vars(LoopCallback)
    /\ WF_vars(Redraw)
    /\ WF_vars(AutoRefreshStart)
    /\ WF_vars(AutoRefreshWake)
    /\ WF_vars(Tick)
    /\ WF_vars(StopRequest)
    /\ WF_vars(StopJoin)

\* The controller and its render thread under fair scheduling.
SpecFair == Spec /\ Fairness

\* ------------------------------------------------------------------ claims
\* The render thread exists and has not terminated.
Alive == thread \in {"spawned", "in_context", "app_running", "app_done"}

\* C1: __exit__ returns only when the render thread has terminated, and
\* once it has returned no repaint happens any more, whatever invalidate()
\* calls and timer expiries follow.
C1_NoRepaintAfterStop ==
    [][/\ mainPc' = "stopped" => thread' = "terminated"
       /\ mainPc = "stopped" => (repaints' = repaints /\ frame' = frame)]_vars

\* invalidate() was called after __exit__ returned, and the auto-refresh
\* timer is due.
C1_Witness ==
    /\ mainPc = "stopped"
    /\ outcome = Result("invalidate", "none")
    /\ queued > 0
    /\ arTask = "sleeping"
    /\ sleepLeft = 0

\* C2: once __enter__ has returned, every call of __exit__ eventually
\* returns, also when it is made before the application has begun to run.
C2_StopReturns ==
    (mainPc = "exit_checked") ~> (mainPc = "stopped")

\* C3: when app.run() has failed, the render thread terminates, a call of
\* __exit__ made afterwards skips app.exit(), and the join of every call of
\* __exit__ completes.
C3_StopAfterFailure ==
    /\ [][(appFailed /\ mainPc = "started" /\ mainPc' = "exit_checked")
             => ~stopWillExit']_vars
    /\ appFailed ~> (thread = "terminated")
    /\ (appFailed /\ mainPc = "joining") ~> (mainPc = "stopped")

\* __exit__ was called after the failure, skipped app.exit() and returned.
C3_Witness ==
    /\ appFailed
    /\ mainPc = "stopped"
    /\ ~stopWillExit

\* C7: invalidate() never raises, whenever and by whomever it is called.
C7_InvalidateNeverRaises ==
    outcome.exc # "AttributeError"

\* C9: after __exit__ has returned the SIGWINCH handler is the one that was
\* in place when __enter__ was called; when __enter__ did not run in the
\* main thread the handler is that one throughout.
C9_WinchRestored ==
    /\ mainPc = "stopped" => winchHandler = winchAtStart
    /\ (mainPc # "created" /\ ~has_sigwinch) => winchHandler = winchAtStart

\* __exit__ has returned after __enter__ had replaced the program's own
\* handler by the hook.
C9_Witness ==
    /\ mainPc = "stopped"
    /\ has_sigwinch
    /\ winchAtStart = "user_handler"
    /\ winchHandler = "user_handler"

\* C10, as stated: between the return of __enter__ and the return of
\* __exit__ the render thread is alive; before and after, it is not.
C10_ExactlyOneAlive ==
    /\ mainPc \in {"started", "exit_checked", "joining"} => Alive
    /\ mainPc \in {"created", "stopped"} => ~Alive

\* C10, amended: no render thread before __enter__, none alive after
\* __exit__ has returned, and in between the thread is alive as long as the
\* application has neither failed nor been asked to exit.
C10_AliveUntilAppEnds ==
    /\ mainPc = "created" => thread = "none"
    /\ mainPc = "stopped" => thread = "terminated"
    /\ (mainPc \in {"started", "exit_checked", "joining"}
           /\ ~appFailed /\ future # "set") => Alive

\* __exit__ waits in its join while the thread has ended already.
C10_Witness ==
    /\ mainPc = "joining"
    /\ thread = "terminated"
    /\ future = "set"
    /\ ~appFailed

\* A pass over counter i ends in this step (a pass over an empty source
\* begins and ends in one step).
PassEnds(i) ==
    /\ ctr'[i].gen = "idle"
    /\ ctr[i].gen # "idle" \/ ctr'[i].passes = ctr[i].passes + 1

\* The first pass over counter i has not ended.
BeforeFirstEnd(i) ==
    \/ ctr[i].passes = 0
    \/ ctr[i].passes = 1 /\ ctr[i].gen # "idle"

\* C4: a counter with remove_when_done is in the registry from its creation
\* until its iteration ends and not any more once it has ended, whether by
\* exhaustion, by abandonment or by a failure.
C4_RemovedWhenDone ==
    \A i \in 1..Len(ctr) :
        ctr[i].remove_when_done => (InRegistry(i) <=> BeforeFirstEnd(i))

\* A counter with remove_when_done is gone after the caller abandoned its
\* iteration.
C4_Witness ==
    \E i \in 1..Len(ctr) :
        /\ ctr[i].remove_when_done
        /\ ctr[i].passes = 1
        /\ ctr[i].gen = "idle"
        /\ ~InRegistry(i)
        /\ outcome = Result("close", "none")

\* C5, as stated: every pass runs the cleanup exactly once when it ends,
\* however it ends; done is false before the cleanup and true from then on.
C5_CleanupOncePerPass ==
    [][\A i \in 1..Len(ctr) :
          /\ PassEnds(i) =>
                /\ ctr'[i].cleanups = ctr[i].cleanups + 1
                /\ ~ctr[i].done
                /\ ctr'[i].done
          /\ ~PassEnds(i) => ctr'[i].cleanups = ctr[i].cleanups
          /\ ctr[i].done => ctr'[i].done]_vars

\* C5, amended: every pass runs the cleanup exactly once when it ends,
\* however it ends; done is false before the first cleanup of the counter
\* and true from then on.
C5_CleanupOncePerPassDoneLatched ==
    [][\A i \in 1..Len(ctr) :
          /\ PassEnds(i) =>
                /\ ctr'[i].cleanups = ctr[i].cleanups + 1
                /\ ctr[i].cleanups = 0 => ~ctr[i].done
                /\ ctr'[i].done
          /\ ~PassEnds(i) => ctr'[i].cleanups = ctr[i].cleanups
          /\ ctr[i].done => ctr'[i].done]_vars

\* A second pass over a counter has ended with a failure of its source.
C5_Witness ==
    \E i \in 1..Len(ctr) :
        /\ ctr[i].passes = 2
        /\ ctr[i].cleanups = 2
        /\ ctr[i].gen = "idle"
        /\ ctr[i].done
        /\ outcome = Result("next", "DataError")

\* C6: the cleanup of the iteration never raises.
C6_CleanupNeverRaises ==
    outcome.exc # "ValueError"

\* Every call of invalidate() so far was made with the application running
\* and less than the minimum redraw interval after the first one.
OneBurst == burst \in {"open", "aged"}

\* The render loop has nothing left to do for the calls made so far.
Served == queued = 0 /\ ~invalidated

MetricRead == metric # None

\* C11, as stated: for a counter whose total is N, zero included, the
\* percentage read after exactly N increments is 100.
C11_FullAfterTotalIncrements ==
    MetricRead =>
        LET m == metric[1] IN
            (m.total # None /\ m.current = m.total[1]) =>
                /\ m.percentage.exc = "none"
                /\ m.percentage.value.num = 100 * m.percentage.value.den

\* C11, amended: for a counter whose total is a positive N, the percentage
\* read after exactly N increments is 100.
C11_FullAfterPositiveTotal ==
    MetricRead =>
        LET m == metric[1] IN
            (m.total # None /\ m.total[1] >= 1 /\ m.current = m.total[1]) =>
                /\ m.percentage.exc = "none"
                /\ m.percentage.value.num = 100 * m.percentage.value.den

\* The percentage of a counter with a positive total was read after as many
\* increments as its total.
C11_Witness ==
    /\ MetricRead
    /\ metric[1].total # None
    /\ metric[1].total[1] >= 1
    /\ metric[1].current = metric[1].total[1]

\* C12: neither getter raises; time_left is None exactly when total is None
\* or the percentage is 0, and otherwise time_left * percentage equals
\* elapsed * (100 - percentage); a counter without total reads percentage 0
\* and time_left None whatever its current is.
C12_TimeLeft ==
    MetricRead =>
        LET m == metric[1]
            p == m.percentage.value
            t == m.time_left.value
        IN  /\ m.percentage.exc = "none"
            /\ m.time_left.exc = "none"
            /\ (t = None) <=> (m.total = None \/ p.num = 0)
            /\ t # None =>
                  t[1].num * p.num = m.elapsed * (100 * p.den - p.num) * t[1].den
            /\ m.total = None => (p.num = 0 /\ t = None)

\* time_left was read as a non-zero time for a counter that has advanced.
C12_Witness ==
    /\ MetricRead
    /\ metric[1].current > 0
    /\ metric[1].elapsed > 0
    /\ metric[1].time_left.value # None
    /\ metric[1].time_left.value[1].num # 0

\* C18: a counter whose total is the length of its data source never counts
\* beyond it, however many passes are made over it.
C18_CurrentWithinTotal ==
    \A i \in 1..Len(ctr) :
        ctr[i].derived =>
            /\ 0 <= ctr[i].current
            /\ ctr[i].current <= ctr[i].total[1]

\* C13: for each item the wrapper increments current, then calls
\* invalidate(), then yields: the increment and the yield are separate
\* steps with the repaint request between them, and while the caller holds
\* the k-th item of a pass, current has been incremented k times in that
\* pass and k calls of invalidate() have been made in it.
C13_IncrementInvalidateYield ==
    [][\A i \in 1..Len(ctr) :
          /\ ctr'[i].items # ctr[i].items /\ ctr'[i].items > 0 =>
                /\ ctr'[i].gen = "advanced"
                /\ ctr'[i].current = ctr[i].current + 1
                /\ queued' = queued
          /\ (ctr'[i].gen = "yielded" /\ ctr[i].gen # "yielded") =>
                /\ ctr[i].gen = "advanced"
                /\ ctr'[i].current = ctr[i].current
                /\ queued' = queued + 1
          /\ ctr'[i].gen = "yielded" =>
                /\ ctr'[i].items >= 1
                /\ ctr'[i].current = ctr'[i].base + ctr'[i].items
                /\ ctr'[i].calls = ctr'[i].items]_vars

\* The caller holds the first item of a second pass over a counter.
C13_Witness ==
    \E i \in 1..Len(ctr) :
        /\ ctr[i].gen = "yielded"
        /\ ctr[i].passes = 2
        /\ ctr[i].items = 1
        /\ ctr[i].base = 1
        /\ ctr[i].current = 2
        /\ queued > 0

\* create_content takes a turn of its loop in this step.
VisitStep == paint.pc = "loop" /\ paint'.index = paint.index + 1

\* create_content ends in this step.
FrameStep == paint.pc = "loop" /\ paint'.pc # "loop"

\* C14: a formatter that raises for a counter costs that counter's line
\* only: the turn of the loop appends 'ERROR' for it and the formatter's
\* result for any other counter, the frame written is the lines of the
\* counters visited, in the order of the visits, and the application is
\* running after every step of the repaint.
C14_FormatterFailureIsolated ==
    [][/\ VisitStep =>
             LET i == counters[paint.index + 1] IN
                 /\ paint'.visited = Append(paint.visited, i)
                 /\ paint'.items =
                        Append(paint.items,
                               IF i \in failing THEN ErrorText
                               ELSE FormatLine(ctr[i]))
       /\ FrameStep =>
             /\ repaints' = repaints + 1
             /\ frame' = paint.items
             /\ Len(frame') = Len(paint.visited)
       /\ paint.pc = "loop" =>
             (thread' = "app_running" /\ is_running' /\ ~appFailed')]_vars

\* A frame of two lines was written, the first the line of a counter that
\* has advanced and the second the placeholder.
C14_Witness ==
    /\ paint.pc = "idle"
    /\ repaints = 1
    /\ thread = "app_running"
    /\ paint.visited = <<1, 2>>
    /\ Len(frame) = 2
    /\ frame[2] = ErrorText
    /\ frame[1] # ErrorText
    /\ frame[1].current = 1

\* The elements of a sequence.
Range(s) == {s[k] : k \in 1..Len(s)}

\* The place of an element in a sequence it occurs in.
IndexOf(s, x) == CHOOSE k \in 1..Len(s) : s[k] = x

\* C15: a repaint that runs beside appends to and removals from the
\* registry visits every counter that is registered from its beginning to
\* its end exactly once, those counters in registry order.
C15_NoCounterSkipped ==
    [][FrameStep =>
          LET whole == {i \in Range(paint.before) : InRegistry(i)} IN
              /\ \A i \in whole :
                    Cardinality({k \in 1..Len(paint.visited) :
                                    paint.visited[k] = i}) = 1
              /\ \A i, j \in whole :
                    (/\ i \in Range(paint.visited)
                     /\ j \in Range(paint.visited)
                     /\ IndexOf(counters, i) < IndexOf(counters, j))
                        => IndexOf(paint.visited, i) < IndexOf(paint.visited, j)]_vars

\* Counter i was created with remove_when_done and its cleanup has run.
Removed(i) == ctr[i].remove_when_done /\ ctr[i].cleanups > 0

\* The counters created so far, in creation order, without the removed ones.
RECURSIVE CreatedFrom(_)
CreatedFrom(i) ==
    IF i > Len(ctr) THEN <<>>
    ELSE IF Removed(i) THEN CreatedFrom(i + 1)
    ELSE <<i>> \o CreatedFrom(i + 1)

\* C19: the registry is the sequence of the counters created, in creation
\* order, without those whose remove_when_done cleanup has run; it holds no
\* counter twice, and a counter without remove_when_done stays in it when
\* it is done.
C19_RegistryIsCreationOrder ==
    /\ counters = CreatedFrom(1)
    /\ \A k, l \in 1..Len(counters) : counters[k] = counters[l] => k = l
    /\ \A i \in 1..Len(ctr) : ~ctr[i].remove_when_done => InRegistry(i)

\* Of two counters, both done, the first was removed and the second, made
\* without remove_when_done, is still registered.
C19_Witness ==
    /\ Len(ctr) = 2
    /\ ctr[1].remove_when_done /\ ctr[1].done
    /\ ~ctr[2].remove_when_done /\ ctr[2].done
    /\ counters = <<2>>

\* The auto-refresh task has just asked for a repaint and sleeps again.
Refreshed ==
    /\ arTask = "sleeping"
    /\ sleepLeft = refresh_interval
    /\ invalidated

\* C16: while the application runs, the auto-refresh task gets started,
\* and whenever it is in the middle of a sleep it asks for a repaint again
\* later and sleeps anew, unless the application ends first: with or
\* without calls of invalidate(), the requests recur for as long as the
\* application runs.
C16_AutoRefreshRecurs ==
    /\ (thread = "app_running")
          ~> (thread # "app_running" \/ arTask = "sleeping")
    /\ (thread = "app_running" /\ arTask = "sleeping"
            /\ sleepLeft < refresh_interval)
          ~> (thread # "app_running" \/ Refreshed)

\* Without any call of invalidate() and without a resize hook, two repaints
\* have happened and the task has just asked for a third.
C16_Witness ==
    /\ outcome = Result("enter", "none")
    /\ ~has_sigwinch
    /\ queued = 0
    /\ repaints = 2
    /\ thread = "app_running"
    /\ Refreshed

\* C17: once the render thread has ended, the auto-refresh task has
\* finished, and neither a sleep nor a call of app.invalidate is left
\* scheduled for it on the render loop.
C17_TaskEndsWithContext ==
    thread = "terminated" => arTask \in {"none", "finished"}

\* C20: in one context, the calls of get_default_output() made with no
\* set_default_output in between all return the same output.
C20_DefaultOutputSelectedOnce ==
    \A x \in Contexts :
        \A k, l \in 1..Len(got[x]) : got[x][k] = got[x][l]
====
